---------------------------- MODULE Spec2Model ----------------------------
(***************************************************************************)
(* Model of dashboard.py: the cached loader (load_data), the sidebar       *)
(* widgets and the three aggregations (tab1, tab2, tab3) that Streamlit    *)
(* re-executes, top to bottom, on every filter change.                     *)
(*                                                                         *)
(* Strings that the code inspects character by character (the cells that   *)
(* are stripped or parsed) are sequences of one-character strings.         *)
(***************************************************************************)
EXTENDS Integers, Sequences, FiniteSets

\* ------------------------------------------------------------ bounds
\* Most rows of the 2001-2012 source file.
MaxRowsA == 2
\* Most rows of the 2013 source file.
MaxRowsB == 1
\* Largest count a source cell holds.
MaxCount == 2

\* ------------------------------------------------ the two CSV sources
\* The sources' year ranges (Datasets/*.csv are not part of src/).
FirstYear == 2001
LastYearA == 2012
YearB == 2013

SP == " "
Digits == <<"0", "1", "2", "3", "4", "5", "6", "7", "8", "9">>

\* A missing cell (pandas NaN) of a count column.
NaN == 0 - 1

\* crime_types: label -> column, in the dict's insertion order.
crime_types ==
    << <<"Murder", "MURDER">>,
       <<"Rape", "RAPE">>,
       <<"Kidnapping & Abduction", "KIDNAPPING & ABDUCTION">>,
       <<"Robbery", "ROBBERY">>,
       <<"Burglary", "BURGLARY">>,
       <<"Theft", "THEFT">>,
       <<"Riots", "RIOTS">>,
       <<"Dowry Deaths", "DOWRY DEATHS">>,
       <<"Assault on Women", "ASSAULT ON WOMEN WITH INTENT TO OUTRAGE HER MODESTY">>,
       <<"Cruelty by Husband", "CRUELTY BY HUSBAND OR HIS RELATIVES">> >>

\* list(crime_types.keys()) and list(crime_types.values()).
Labels == [i \in DOMAIN crime_types |-> crime_types[i][1]]
Columns == [i \in DOMAIN crime_types |-> crime_types[i][2]]

Range(f) == {f[x] : x \in DOMAIN f}

\* crime_types[label]
ColumnOf(label) == crime_types[CHOOSE i \in DOMAIN crime_types : crime_types[i][1] = label][2]

\* ------------------------------------------------------------- inputs
\* The four-character text of a year, as it stands in a YEAR cell.
YearCell(y) ==
    << Digits[((y \div 1000) % 10) + 1], Digits[((y \div 100) % 10) + 1],
       Digits[((y \div 10) % 10) + 1], Digits[(y % 10) + 1] >>

\* (STATE/UT, DISTRICT) cells as the sources carry them: plain or padded.
NameSamples ==
    { [state |-> <<"M">>, district |-> <<"D">>],
      [state |-> <<SP, "M", SP>>, district |-> <<SP, "D", SP>>],
      [state |-> <<"G">>, district |-> <<"D">>] }

\* A YEAR cell that is no number.
BadYearCell == <<"x">>

\* Years of the rows drawn for each source; both lie in the source's range.
SampleYearsA == {LastYearA - 1}
SampleYearsB == {YearB}

\* The header of a source: every crime column, or MURDER missing.
Headers == {Range(Columns), Range(Columns) \ {Columns[1]}}

\* The count cells of the row at position pos of a source with header cols:
\* column i holds (pos * i) mod (MaxCount + 1).
CountCells(pos, cols) ==
    [c \in cols |-> (pos * (CHOOSE i \in DOMAIN Columns : Columns[i] = c)) % (MaxCount + 1)]

\* The STATE/UT, DISTRICT and YEAR cells a row of a source with years ys may
\* hold; one row has a YEAR cell that is no number.
SourceRows(ys) ==
    { [state |-> n.state, district |-> n.district, year |-> YearCell(y)] :
        n \in NameSamples, y \in ys }
    \cup { [state |-> <<"M">>, district |-> <<"D">>, year |-> BadYearCell] }

SeqsUpTo(S, n) == UNION { [1..k -> S] : k \in 0..n }

\* A source file: absent from disk, or a header and rows.
NoFile == [exists |-> FALSE, cols |-> {}, rows |-> <<>>]
SourceFiles(ys, n) ==
    {NoFile} \cup
    { [exists |-> TRUE, cols |-> h,
       rows |-> [i \in DOMAIN r |->
                    [state |-> r[i].state, district |-> r[i].district, year |-> r[i].year,
                     cnt |-> CountCells(i, h)]]] :
        h \in Headers, r \in SeqsUpTo(SourceRows(ys), n) }

VARIABLES files, cache, data, selection, pc, err, state_data, yearly_data, category_data

vars == <<files, cache, data, selection, pc, err, state_data, yearly_data, category_data>>

\* --------------------------------------------------------- load_data
\* str.strip(): drop leading and trailing whitespace.
RECURSIVE lstrip(_)
lstrip(s) == IF s # <<>> /\ Head(s) = SP THEN lstrip(Tail(s)) ELSE s

RECURSIVE rstrip(_)
rstrip(s) == IF s # <<>> /\ s[Len(s)] = SP THEN rstrip(SubSeq(s, 1, Len(s) - 1)) ELSE s

\* Mutant: only the leading whitespace is dropped.
strip_left(s) == lstrip(s)

strip(s) == rstrip(lstrip(s))

DigitValue(ch) == (CHOOSE i \in DOMAIN Digits : Digits[i] = ch) - 1

\* format='%Y' matches exactly four digits.
MatchesYearFormat(cell) == Len(cell) = 4 /\ \A i \in 1..4 : cell[i] \in Range(Digits)

\* pd.to_datetime(cell, format='%Y').year
ParseYear(cell) ==
    DigitValue(cell[1]) * 1000 + DigitValue(cell[2]) * 100
        + DigitValue(cell[3]) * 10 + DigitValue(cell[4])

\* pd.concat([a, b]): the union of the columns, a's rows then b's, NaN where
\* a source lacks a column.
Widen(row, cols) ==
    [row EXCEPT !.cnt = [c \in cols |-> IF c \in DOMAIN row.cnt THEN row.cnt[c] ELSE NaN]]

concat(a, b) ==
    LET cols == a.cols \cup b.cols
    IN  [cols |-> cols,
         rows |-> [i \in 1..Len(a.rows) |-> Widen(a.rows[i], cols)]
                  \o [i \in 1..Len(b.rows) |-> Widen(b.rows[i], cols)]]

\* Lines 147-149: the YEAR, STATE/UT and DISTRICT columns rewritten.
Normalize(row) ==
    [row EXCEPT !.year = ParseYear(row.year),
                !.state = strip(row.state),
                !.district = strip(row.district)]

NoTable == [def |-> FALSE, cols |-> {}, rows |-> <<>>]

\* Mutant: a source that is missing is skipped instead of raising.
LoadBody_lenient(fs) ==
    LET ipc_data == concat(fs.a, fs.b)
    IN  IF \E i \in DOMAIN ipc_data.rows : ~MatchesYearFormat(ipc_data.rows[i].year)
        THEN [error |-> "ValueError", table |-> NoTable]
        ELSE [error |-> "",
              table |-> [def |-> TRUE, cols |-> ipc_data.cols,
                         rows |-> [i \in DOMAIN ipc_data.rows |-> Normalize(ipc_data.rows[i])]]]

\* The body of load_data: the table it returns, or the exception it raises.
LoadBody(fs) ==
    IF ~fs.b.exists \/ ~fs.a.exists
    THEN [error |-> "FileNotFoundError", table |-> NoTable]
    ELSE LET ipc_data == concat(fs.a, fs.b)
         IN  IF \E i \in DOMAIN ipc_data.rows : ~MatchesYearFormat(ipc_data.rows[i].year)
             THEN [error |-> "ValueError", table |-> NoTable]
             ELSE [error |-> "",
                   table |-> [def |-> TRUE, cols |-> ipc_data.cols,
                              rows |-> [i \in DOMAIN ipc_data.rows |->
                                            Normalize(ipc_data.rows[i])]]]

NoFrame == [def |-> FALSE, rows |-> <<>>]
Frame(r) == [def |-> TRUE, rows |-> r]
NoSelection == [def |-> FALSE, year |-> 0, state |-> <<>>, crime |-> ""]

Init ==
    /\ files \in [a : SourceFiles(SampleYearsA, MaxRowsA), b : SourceFiles(SampleYearsB, MaxRowsB)]
    /\ cache = NoTable
    /\ data = NoTable
    /\ selection = NoSelection
    /\ pc = "load"
    /\ err = ""
    /\ state_data = NoFrame
    /\ yearly_data = NoFrame
    /\ category_data = NoFrame

\* Mutant: no @st.cache_data, the body runs on every run.
load_data_uncached ==
    /\ pc = "load"
    /\ LET r == LoadBody(files)
       IN  IF r.error = ""
           THEN /\ cache' = r.table
                /\ data' = r.table
                /\ pc' = "sidebar"
                /\ err' = err
           ELSE /\ err' = r.error
                /\ pc' = "failed"
                /\ UNCHANGED <<cache, data>>
    /\ UNCHANGED <<files, selection, state_data, yearly_data, category_data>>

\* data = load_data() under @st.cache_data: the body runs on a cache miss only,
\* and only a returned table is stored.
load_data ==
    /\ pc = "load"
    /\ IF cache.def
       THEN /\ data' = cache
            /\ pc' = "sidebar"
            /\ UNCHANGED <<cache, err>>
       ELSE LET r == LoadBody(files)
            IN  IF r.error = ""
                THEN /\ cache' = r.table
                     /\ data' = r.table
                     /\ pc' = "sidebar"
                     /\ err' = err
                ELSE /\ err' = r.error
                     /\ pc' = "failed"
                     /\ UNCHANGED <<cache, data>>
    /\ UNCHANGED <<files, selection, state_data, yearly_data, category_data>>

\* ------------------------------------------------------------ sidebar
All == <<"A", "l", "l">>

\* The crime types the user is taken to pick among.
CrimeSamples == {Labels[1], Labels[2]}

Years(t) == {t.rows[i].year : i \in DOMAIN t.rows}
States(t) == {t.rows[i].state : i \in DOMAIN t.rows}
Min(S) == CHOOSE x \in S : \A y \in S : x <= y
Max(S) == CHOOSE x \in S : \A y \in S : y <= x

\* What the three widgets offer for table t: the slider's integers from the
\* least to the greatest YEAR, 'All' and the states, the mapping's keys.
Selections(t) ==
    { [def |-> TRUE, year |-> y, state |-> s, crime |-> c] :
        y \in Min(Years(t))..Max(Years(t)), s \in {All} \cup States(t), c \in CrimeSamples }

\* The widgets' values on a session's first run: value=max, and index 0 of
\* each selectbox.
Defaults(t) == [def |-> TRUE, year |-> Max(Years(t)), state |-> All, crime |-> Labels[1]]

\* Lines 171-201. int(data['YEAR'].min()) of a table without rows is int(nan).
Sidebar ==
    /\ pc = "sidebar"
    /\ IF data.rows = <<>>
       THEN /\ err' = "ValueError"
            /\ pc' = "failed"
            /\ UNCHANGED selection
       ELSE /\ selection' = IF selection.def THEN selection ELSE Defaults(data)
            /\ pc' = "tab1"
            /\ UNCHANGED err
    /\ UNCHANGED <<files, cache, data, state_data, yearly_data, category_data>>

\* ------------------------------------------------------- aggregations
\* Series.sum(): NaN cells are skipped.
RECURSIVE sum(_)
sum(values) ==
    IF values = <<>> THEN 0
    ELSE (IF Head(values) = NaN THEN 0 ELSE Head(values)) + sum(Tail(values))

ColumnValues(rows, c) == [i \in DOMAIN rows |-> rows[i].cnt[c]]

\* Mutant: .count() in place of .sum().
groupby_count(rows, by, c) ==
    [k \in {rows[i][by] : i \in DOMAIN rows} |->
        Len(SelectSeq(rows, LAMBDA r : r[by] = k))]

\* rows.groupby(by)[c].sum(): one entry per distinct key.
groupby_sum(rows, by, c) ==
    [k \in {rows[i][by] : i \in DOMAIN rows} |->
        sum(ColumnValues(SelectSeq(rows, LAMBDA r : r[by] = k), c))]

\* Mutant: the state filter is applied to data, dropping the year filter.
filtered_data_stateOnly(t, sel) ==
    IF sel.state # All
    THEN SelectSeq(t.rows, LAMBDA r : r.state = sel.state)
    ELSE SelectSeq(t.rows, LAMBDA r : r.year = sel.year)

\* Lines 218-220.
filtered_data(t, sel) ==
    LET byYear == SelectSeq(t.rows, LAMBDA r : r.year = sel.year)
    IN  IF sel.state # All
        THEN SelectSeq(byYear, LAMBDA r : r.state = sel.state)
        ELSE byYear

\* Mutant: one row for every state on offer, 0 where no row was picked.
StateTotals_dense(t, sel) ==
    LET picked == filtered_data(t, sel)
    IN  [k \in (IF sel.state = All THEN States(t) ELSE {sel.state}) |->
            sum(ColumnValues(SelectSeq(picked, LAMBDA r : r.state = k), ColumnOf(sel.crime)))]

\* Line 223, when the column exists.
StateTotals(t, sel) == groupby_sum(filtered_data(t, sel), "state", ColumnOf(sel.crime))

\* Mutant: the trend is computed from the filtered rows.
YearTotals_filtered(t, sel) == groupby_sum(filtered_data(t, sel), "year", ColumnOf(sel.crime))

\* Line 248, when the column exists.
YearTotals(t, sel) == groupby_sum(t.rows, "year", ColumnOf(sel.crime))

\* Mutant: the sums are taken in the reverse of the keys' order.
CategoryTotals_reversed(t, sel) ==
    LET n == Len(Columns)
        summed == [i \in DOMAIN Columns |->
                      [Category |-> Columns[n + 1 - i],
                       Count |-> sum(ColumnValues(t.rows, Columns[n + 1 - i]))]]
    IN  [i \in DOMAIN summed |-> [summed[i] EXCEPT !.Category = crime_types[i][1]]]

\* Lines 270-272: the sums in the order of list(crime_types.values()), then the
\* Category column overwritten, position by position, with the keys.
CategoryTotals(t, sel) ==
    LET summed == [i \in DOMAIN Columns |->
                      [Category |-> Columns[i], Count |-> sum(ColumnValues(t.rows, Columns[i]))]]
        keys == [i \in DOMAIN crime_types |-> crime_types[i][1]]
    IN  [i \in DOMAIN summed |-> [summed[i] EXCEPT !.Category = keys[i]]]

\* Mutant: a missing column counts as 0 instead of raising.
tab1_defaulting ==
    /\ pc = "tab1"
    /\ state_data' =
          IF ColumnOf(selection.crime) \in data.cols
          THEN Frame(StateTotals(data, selection))
          ELSE Frame([k \in {r.state : r \in Range(filtered_data(data, selection))} |-> 0])
    /\ pc' = "tab2"
    /\ UNCHANGED <<files, cache, data, selection, err, yearly_data, category_data>>

\* Mutant: the filtered rows are assigned back to data.
tab1_inplace ==
    /\ pc = "tab1"
    /\ IF ColumnOf(selection.crime) \in data.cols
       THEN /\ state_data' = Frame(StateTotals(data, selection))
            /\ data' = [data EXCEPT !.rows = filtered_data(data, selection)]
            /\ pc' = "tab2"
            /\ UNCHANGED err
       ELSE /\ err' = "KeyError"
            /\ pc' = "failed"
            /\ UNCHANGED <<state_data, data>>
    /\ UNCHANGED <<files, cache, selection, yearly_data, category_data>>

\* with tab1: lines 214-223. A column the table lacks is a KeyError.
tab1 ==
    /\ pc = "tab1"
    /\ IF ColumnOf(selection.crime) \in data.cols
       THEN /\ state_data' = Frame(StateTotals(data, selection))
            /\ pc' = "tab2"
            /\ UNCHANGED err
       ELSE /\ err' = "KeyError"
            /\ pc' = "failed"
            /\ UNCHANGED state_data
    /\ UNCHANGED <<files, cache, data, selection, yearly_data, category_data>>

\* with tab2: lines 244-248.
tab2 ==
    /\ pc = "tab2"
    /\ IF ColumnOf(selection.crime) \in data.cols
       THEN /\ yearly_data' = Frame(YearTotals(data, selection))
            /\ pc' = "tab3"
            /\ UNCHANGED err
       ELSE /\ err' = "KeyError"
            /\ pc' = "failed"
            /\ UNCHANGED yearly_data
    /\ UNCHANGED <<files, cache, data, selection, state_data, category_data>>

\* with tab3: lines 266-272. data[list(crime_types.values())] needs every column.
tab3 ==
    /\ pc = "tab3"
    /\ IF Range(Columns) \subseteq data.cols
       THEN /\ category_data' = Frame(CategoryTotals(data, selection))
            /\ pc' = "done"
            /\ UNCHANGED err
       ELSE /\ err' = "KeyError"
            /\ pc' = "failed"
            /\ UNCHANGED category_data
    /\ UNCHANGED <<files, cache, data, selection, state_data, yearly_data>>

\* ------------------------------------------------------------- reruns
\* A rerun executes the script from its first line in a fresh namespace.
Restart ==
    /\ pc' = "load"
    /\ err' = ""
    /\ data' = NoTable
    /\ state_data' = NoFrame
    /\ yearly_data' = NoFrame
    /\ category_data' = NoFrame

\* The user moves a widget the last run drew: the script reruns with the new
\* values.
FilterChange ==
    /\ pc \in {"done", "failed"}
    /\ selection.def
    /\ \E sel \in Selections(data) :
          /\ sel # selection
          /\ selection' = sel
    /\ Restart
    /\ UNCHANGED <<files, cache>>

\* The page is reloaded: a new session, whose widgets hold no value yet.
Reload ==
    /\ pc \in {"done", "failed"}
    /\ selection' = NoSelection
    /\ Restart
    /\ UNCHANGED <<files, cache>>

\* The Datasets directory goes away while the process lives.
RemoveDatasets ==
    /\ pc \in {"done", "failed"}
    /\ files.a.exists \/ files.b.exists
    /\ files' = [a |-> NoFile, b |-> NoFile]
    /\ UNCHANGED <<cache, data, selection, pc, err, state_data, yearly_data, category_data>>

Next ==
    \/ load_data
    \/ Sidebar
    \/ tab1
    \/ tab2
    \/ tab3
    \/ FilterChange
    \/ Reload
    \/ RemoveDatasets

Spec == Init /\ [][Next]_vars

\* ------------------------------------------------------------- claims
\* The rows of t that the selection's year (and state, unless 'All') picks.
Matching(t, sel) ==
    { i \in DOMAIN t.rows :
        /\ t.rows[i].year = sel.year
        /\ sel.state = All \/ t.rows[i].state = sel.state }

Cell(t, i, c) == IF t.rows[i].cnt[c] = NaN THEN 0 ELSE t.rows[i].cnt[c]

\* The total of column c over the rows of t indexed by S.
RECURSIVE Total(_, _, _)
Total(t, S, c) ==
    IF S = {} THEN 0
    ELSE LET i == CHOOSE j \in S : TRUE
         IN  Cell(t, i, c) + Total(t, S \ {i}, c)

\* The total of the values of a mapping.
RECURSIVE TotalOf(_)
TotalOf(f) ==
    IF DOMAIN f = {} THEN 0
    ELSE LET k == CHOOSE j \in DOMAIN f : TRUE
         IN  f[k] + TotalOf([j \in DOMAIN f \ {k} |-> f[j]])

\* C1: state_data has exactly one row for each state among the rows the
\* selection's year and state pick, and its value is the sum of the selected
\* crime's column over the picked rows of that state.
C1_StateTotals ==
    state_data.def =>
        LET M == Matching(data, selection)
            c == ColumnOf(selection.crime)
        IN  /\ DOMAIN state_data.rows = {data.rows[i].state : i \in M}
            /\ \A k \in DOMAIN state_data.rows :
                  state_data.rows[k] = Total(data, {i \in M : data.rows[i].state = k}, c)

\* Two picked rows of one state, both with a count, were added into one row.
C1_Witness ==
    /\ state_data.def
    /\ \E i, j \in Matching(data, selection) :
          /\ i # j
          /\ data.rows[i].state = data.rows[j].state
          /\ Cell(data, i, ColumnOf(selection.crime)) > 0
          /\ Cell(data, j, ColumnOf(selection.crime)) > 0
          /\ state_data.rows[data.rows[i].state]
                = Cell(data, i, ColumnOf(selection.crime)) + Cell(data, j, ColumnOf(selection.crime))

\* C2: the values of state_data add up to the sum of the selected crime's
\* column over the rows the selection picks.
C2_SumPreserved ==
    state_data.def =>
        TotalOf(state_data.rows)
            = Total(data, Matching(data, selection), ColumnOf(selection.crime))

\* Two states were picked and grouped, with a total above zero.
C2_Witness ==
    /\ state_data.def
    /\ Cardinality(DOMAIN state_data.rows) >= 2
    /\ \A k \in DOMAIN state_data.rows : state_data.rows[k] > 0

\* C3: what a run computed for the trend equals what any other selection of
\* the same crime type yields on the cached table, and what it computed for
\* the categories equals what any selection at all yields.
C3_FilterIndependence ==
    /\ yearly_data.def =>
          \A s \in Selections(cache) :
              s.crime = selection.crime => YearTotals(cache, s) = yearly_data.rows
    /\ category_data.def =>
          \A s \in Selections(cache) : CategoryTotals(cache, s) = category_data.rows

\* A finished run whose selection is not the default, on a table with two
\* years and two states.
C3_Witness ==
    /\ pc = "done"
    /\ selection.state # All
    /\ selection.year # Max(Years(data))
    /\ Cardinality(DOMAIN yearly_data.rows) >= 2
    /\ Cardinality(States(data)) >= 2

Nowhere == <<"N">>

\* C4: when no row is picked, and the selected crime's column is in the table,
\* tab1 ends without an exception and state_data is the empty table; the same
\* holds of a state that no row of the table carries.
C4_EmptyResult ==
    /\ ( /\ data.def
         /\ selection.def
         /\ pc \notin {"load", "sidebar", "tab1"}
         /\ ColumnOf(selection.crime) \in data.cols
         /\ Matching(data, selection) = {} )
       => state_data = Frame(<<>>)
    /\ ( /\ data.def
         /\ selection.def
         /\ ColumnOf(selection.crime) \in data.cols )
       => StateTotals(data, [selection EXCEPT !.state = Nowhere]) = <<>>

\* A run went past tab1 for a state that has no record in the selected year.
C4_Witness ==
    /\ pc = "done"
    /\ selection.state # All
    /\ Matching(data, selection) = {}
    /\ state_data = Frame(<<>>)
    /\ err = ""

\* C5: when the table lacks the selected crime's column, the run has ended
\* with KeyError (the spec's UnknownCrimeColumnError) at tab1 and no result
\* table was produced.
C5_UnknownColumn ==
    ( /\ data.def
      /\ selection.def
      /\ pc \notin {"load", "sidebar", "tab1"}
      /\ ColumnOf(selection.crime) \notin data.cols )
    => /\ pc = "failed"
       /\ err = "KeyError"
       /\ ~state_data.def
       /\ ~yearly_data.def
       /\ ~category_data.def

\* A table with rows but without the MURDER column, Murder selected.
C5_Witness ==
    /\ pc = "failed"
    /\ err = "KeyError"
    /\ data.rows # <<>>
    /\ selection.def
    /\ ColumnOf(selection.crime) \notin data.cols
    /\ ~state_data.def

\* A source is missing, or one of its YEAR cells is no four-digit number.
Unloadable(fs) ==
    \/ ~fs.a.exists
    \/ ~fs.b.exists
    \/ \E i \in DOMAIN fs.a.rows : ~MatchesYearFormat(fs.a.rows[i].year)
    \/ \E i \in DOMAIN fs.b.rows : ~MatchesYearFormat(fs.b.rows[i].year)

\* C6: with a source missing or a YEAR cell unparseable, load_data has raised
\* (FileNotFoundError or ValueError, the spec's DataLoadError), nothing is
\* cached or returned, and no widget or aggregation ran; a table is cached
\* only from two loadable sources (which may have been removed since) and
\* holds every row of both.
C6_AllOrNothing ==
    /\ (Unloadable(files) /\ ~cache.def /\ pc # "load")
       => /\ pc = "failed"
          /\ err \in {"FileNotFoundError", "ValueError"}
          /\ ~data.def
          /\ ~selection.def
          /\ ~state_data.def
          /\ ~yearly_data.def
          /\ ~category_data.def
    /\ cache.def
       => \/ ~files.a.exists /\ ~files.b.exists
          \/ /\ ~Unloadable(files)
             /\ Len(cache.rows) = Len(files.a.rows) + Len(files.b.rows)

\* The 2013 source is missing while the other has rows: the load failed.
C6_Witness ==
    /\ pc = "failed"
    /\ err = "FileNotFoundError"
    /\ files.a.exists
    /\ files.a.rows # <<>>
    /\ ~files.b.exists
    /\ ~cache.def

\* C7: once a table is cached it never changes, a later run's load_data
\* returns it without reading the sources, every rerun starts with no result,
\* and a finished run's three results are those of the cached table and that
\* run's selection.
C7_LoadOnceAggregateAlways ==
    [][ /\ cache.def => cache' = cache
        /\ (pc = "load" /\ cache.def) => (data' = cache /\ pc' = "sidebar")
        /\ (pc \in {"done", "failed"} /\ pc' = "load")
              => (~state_data'.def /\ ~yearly_data'.def /\ ~category_data'.def)
        /\ pc' = "done"
              => /\ state_data' = Frame(StateTotals(cache', selection'))
                 /\ yearly_data' = Frame(YearTotals(cache', selection'))
                 /\ category_data' = Frame(CategoryTotals(cache', selection')) ]_vars

\* A rerun, started after the sources were removed, went past load_data and
\* tab1 with a selection the user made.
C7_Witness ==
    /\ pc = "tab2"
    /\ ~files.a.exists
    /\ ~files.b.exists
    /\ data = cache
    /\ selection # Defaults(data)
    /\ state_data.def

\* C8: category_data has exactly one row per entry of crime_types, under the
\* entry's label, and its count is the sum of the entry's column over the
\* whole table.
C8_CategoryTotals ==
    category_data.def =>
        /\ Len(category_data.rows) = Len(crime_types)
        /\ \A e \in DOMAIN crime_types :
              \E i \in DOMAIN category_data.rows :
                  /\ category_data.rows[i].Category = crime_types[e][1]
                  /\ category_data.rows[i].Count
                        = Total(data, DOMAIN data.rows, crime_types[e][2])
                  /\ \A j \in DOMAIN category_data.rows :
                        category_data.rows[j].Category = crime_types[e][1] => j = i

\* Category totals over a table with several rows, two of them different.
C8_Witness ==
    /\ category_data.def
    /\ Len(data.rows) >= 2
    /\ \E i, j \in DOMAIN category_data.rows :
          /\ category_data.rows[i].Count # category_data.rows[j].Count
          /\ category_data.rows[i].Count > 0
          /\ category_data.rows[j].Count > 0

\* C9: no aggregation step changes the table, in the script or in the cache,
\* and a finished run's results are those of the table as it was loaded.
C9_TableUnchanged ==
    [][ /\ pc \in {"tab1", "tab2", "tab3"} => (data' = data /\ cache' = cache)
        /\ pc' = "done"
              => /\ data' = cache'
                 /\ state_data'.rows = StateTotals(cache', selection')
                 /\ yearly_data'.rows = YearTotals(cache', selection')
                 /\ category_data'.rows = CategoryTotals(cache', selection') ]_vars

\* A finished run whose filter left some rows of the table out.
C9_Witness ==
    /\ pc = "done"
    /\ data = cache
    /\ Matching(data, selection) # {}
    /\ Matching(data, selection) # DOMAIN data.rows
    /\ Cardinality(DOMAIN yearly_data.rows) >= 2

NoPadding(s) == s = <<>> \/ (Head(s) # SP /\ s[Len(s)] # SP)

\* C10: every row of a loaded table has a state and a district without
\* leading or trailing whitespace and a year within 2001..2013.
C10_Normalized ==
    \A t \in {cache, data} :
        \A i \in DOMAIN t.rows :
            /\ NoPadding(t.rows[i].state)
            /\ NoPadding(t.rows[i].district)
            /\ t.rows[i].year \in FirstYear..YearB

\* A source row padded on both sides was loaded, and is stored trimmed.
C10_Witness ==
    /\ cache.def
    /\ files.a.exists
    /\ \E i \in DOMAIN files.a.rows :
          /\ files.a.rows[i].state = <<SP, "M", SP>>
          /\ files.a.rows[i].district = <<SP, "D", SP>>
          /\ cache.rows[i].state = <<"M">>
          /\ cache.rows[i].district = <<"D">>
          /\ cache.rows[i].year = LastYearA - 1
=============================================================================
